---- MODULE Spec2Model ----
(***************************************************************************)
(* Model of transcribe.py: an interactive command-line orchestrator that   *)
(* converts media to WAV with an external transcoder, fetches remote audio *)
(* with an external downloader, and hands WAV files to an external         *)
(* transcription pipeline, keyed by a per-language credential.             *)
(*                                                                         *)
(* Strings whose content the code inspects (mode choice, language sign,    *)
(* file suffix, leading file bytes) are sequences of one-character         *)
(* strings, so that strip(), upper() and lower() are computed.             *)
(***************************************************************************)
EXTENDS Integers, Sequences, FiniteSets, TLC

\* Largest number of entries the local directory holds.
MaxEntries == 3

----------------------------------------------------------------------------
\* Character-level helpers (str.upper, str.lower, str.strip).

LowerAlpha == <<"a","b","c","d","e","f","g","h","i","j","k","l","m",
                "n","o","p","q","r","s","t","u","v","w","x","y","z">>

UpperAlpha == <<"A","B","C","D","E","F","G","H","I","J","K","L","M",
                "N","O","P","Q","R","S","T","U","V","W","X","Y","Z">>

\* The case mappings, as tables over the letters.
UpperOf ==
    [c \in { LowerAlpha[i] : i \in 1..Len(LowerAlpha) } |->
        UpperAlpha[CHOOSE i \in 1..Len(LowerAlpha) : LowerAlpha[i] = c]]

LowerOf ==
    [c \in { UpperAlpha[i] : i \in 1..Len(UpperAlpha) } |->
        LowerAlpha[CHOOSE i \in 1..Len(UpperAlpha) : UpperAlpha[i] = c]]

\* A character that is not a cased letter is left as it is.
UpperChar(c) == IF c \in DOMAIN UpperOf THEN UpperOf[c] ELSE c

LowerChar(c) == IF c \in DOMAIN LowerOf THEN LowerOf[c] ELSE c

Upper(s) == [i \in 1..Len(s) |-> UpperChar(s[i])]

Lower(s) == [i \in 1..Len(s) |-> LowerChar(s[i])]

RECURSIVE LStrip(_)
LStrip(s) == IF s # <<>> /\ Head(s) = " " THEN LStrip(Tail(s)) ELSE s

RECURSIVE RStrip(_)
RStrip(s) ==
    IF s # <<>> /\ s[Len(s)] = " " THEN RStrip(SubSeq(s, 1, Len(s) - 1)) ELSE s

Strip(s) == RStrip(LStrip(s))

----------------------------------------------------------------------------
\* Credential registry (LANGUAGE_API_KEYS) and its lookup.

EN == <<"E","N">>
AR == <<"A","R">>
FR == <<"F","R">>
JA == <<"J","A">>

\* The keys of LANGUAGE_API_KEYS.
Codes == {EN, AR, FR, JA}

\* os.getenv gives None for an unset variable, else the variable's text.
NoneValue == "<None>"

\* Python truthiness of a value os.getenv returned.
Truthy(v) == v # NoneValue /\ v # ""

\* any(LANGUAGE_API_KEYS.values())
\* Variant that asks for every credential.
AllCredentials(keys) == \A c \in DOMAIN keys : Truthy(keys[c])

AnyCredential(keys) == \E c \in DOMAIN keys : Truthy(keys[c])

\* Variant of the lookup that compares the language sign as typed.
LookupExactCase(keys, language_sign) ==
    IF language_sign \in DOMAIN keys THEN keys[language_sign] ELSE NoneValue

\* LANGUAGE_API_KEYS.get(language_sign.upper())
Lookup(keys, language_sign) ==
    IF Upper(language_sign) \in DOMAIN keys
    THEN keys[Upper(language_sign)]
    ELSE NoneValue

----------------------------------------------------------------------------
\* Files and paths.

RIFF == <<"R","I","F","F">>

\* file.read(4): at most the first four bytes.
Read4(bytes) == SubSeq(bytes, 1, IF Len(bytes) < 4 THEN Len(bytes) ELSE 4)

Absent == [exists |-> FALSE, readable |-> FALSE, bytes |-> <<>>]

FileOf(bytes) == [exists |-> TRUE, readable |-> TRUE, bytes |-> bytes]

\* Lines 67-72.  open() raises IOError for a missing or unreadable file and
\* the prober answers False then; otherwise it compares the first four bytes.
is_wav_file(f) ==
    IF f.exists /\ f.readable THEN Read4(f.bytes) = RIFF ELSE FALSE

\* A path of the local directory: stem plus suffix (without the dot).
P(stem, suffix) == [stem |-> stem, suffix |-> suffix]

WavSuffix == <<"w","a","v">>
Mp3Suffix == <<"m","p","3">>

VideoSuffixes == {<<"m","p","4">>, <<"m","k","v">>, <<"a","v","i">>}

\* Path.with_suffix('.wav')
with_suffix_wav(p) == [p EXCEPT !.suffix = WavSuffix]


TxtSuffix == <<"t","x","t">>

\* Entries the local directory may hold; b.wav is only ever a conversion
\* target.  Suffix case varies because the code lower-cases the suffix.
SourcePaths ==
    { P("a", WavSuffix), P("a", Mp3Suffix), P("a", <<"M","K","V">>),
      P("b", <<"a","v","i">>), P("b", TxtSuffix) }

LocalPaths == SourcePaths \cup { with_suffix_wav(p) : p \in SourcePaths }

\* The downloads directory: a WAV left by an earlier run, and the WAV the
\* downloader writes for a URL (%(id)s.wav).
Urls == {"u1", "u2"}

DownloadedPath(url) == P(url, WavSuffix)

StalePath == P("old", WavSuffix)

DownloadPaths == {StalePath} \cup { DownloadedPath(u) : u \in Urls }

AllPaths == LocalPaths \cup DownloadPaths

WavBytes == RIFF \o <<"W">>

MediaBytes == <<"I","D","3">>

\* What a file may contain before the run: the .wav entry and the .txt
\* entry are the entries whose bytes the prober can come to read.
WavEntryFiles ==
    { FileOf(WavBytes), FileOf(<<"R","I","F">>), FileOf(<<>>),
      [exists |-> TRUE, readable |-> FALSE, bytes |-> WavBytes] }

TxtEntryFiles == { FileOf(WavBytes), FileOf(<<"t">>) }

InitialFs(dir, stale, wavFile, txtFile) ==
    [p \in AllPaths |->
        IF p \in dir
        THEN IF p = P("a", WavSuffix) THEN wavFile
             ELSE IF p = P("b", TxtSuffix) THEN txtFile
             ELSE FileOf(MediaBytes)
        ELSE IF p \in stale THEN FileOf(WavBytes)
        ELSE Absent]

\* Operator input.
ModeInputs == { <<"y">>, <<" ","l"," ">>, <<"L">>, <<"q">>, <<>> }

LangInputs == { <<"e","n">>, <<"F","r">>, <<"e","n"," ">> }

\* Environments the registry is built from.
KeyChoices ==
    { [c \in Codes |-> NoneValue],
      [c \in Codes |-> IF c = AR THEN "" ELSE NoneValue],
      [c \in Codes |-> IF c = EN THEN "key-en" ELSE NoneValue],
      [c \in Codes |-> IF c \in {FR, JA} THEN "key" ELSE ""] }

PipelineOutcomes == {"ok", "raised"}

----------------------------------------------------------------------------
VARIABLES
    keys,       \* LANGUAGE_API_KEYS
    fs,         \* path -> file, for the local directory and downloads/
    pc,         \* where the process is
    exitCode,   \* process exit status, meaningful when pc = "exited"
    uncaught,   \* name of the exception that ended the process, or ""
    choice,     \* main: choice
    listing,    \* main: the entries file_path.glob('*') yields
    idx,        \* main: position in listing of the entry being processed
    cur,        \* main: file_path / wav_file / audio_file to dispatch
    lang,       \* main: language_sign read in remote mode
    url,        \* main: youtube_url
    events,     \* what the process did, in order
    log,        \* transcription.log
    stdout,     \* messages printed
    outputs     \* WAV paths whose transcripts the pipeline wrote

vars == <<keys, fs, pc, exitCode, uncaught, choice, listing, idx, cur, lang,
          url, events, log, stdout, outputs>>

NoPath == P("", <<>>)

Ev(kind, entry, path, language_sign, file, result) ==
    [kind |-> kind, entry |-> entry, path |-> path, lang |-> language_sign,
     file |-> file, result |-> result]

\* Injective sequences over S: the orders a directory scan may yield.
Perms(S) ==
    { s \in [1..Cardinality(S) -> S] :
        \A i, j \in 1..Cardinality(S) : s[i] = s[j] => i = j }

Existing(files, paths) == { p \in paths : files[p].exists }

Init ==
    /\ keys \in KeyChoices
    /\ \E dir \in SUBSET SourcePaths, stale \in SUBSET {StalePath},
          wavFile \in WavEntryFiles, txtFile \in TxtEntryFiles :
         /\ Cardinality(dir) <= MaxEntries
         \* local mode never reads downloads/ and remote mode never reads
         \* the local directory, so the two are varied one at a time
         /\ stale # {} => dir = {}
         /\ fs = InitialFs(dir, stale, wavFile, txtFile)
    /\ pc = "start"
    /\ exitCode = 0
    /\ uncaught = ""
    /\ choice = <<>>
    /\ listing = <<>>
    /\ idx = 0
    /\ cur = NoPath
    /\ lang = <<>>
    /\ url = ""
    /\ events = <<>>
    /\ log = <<>>
    /\ stdout = <<>>
    /\ outputs = {}

\* sys.exit(code)
Exit(code) == pc' = "exited" /\ exitCode' = code

\* Module level, lines 16-29: build the registry, refuse to start without
\* any credential.
Startup ==
    /\ pc = "start"
    /\ IF ~AnyCredential(keys)
       THEN /\ stdout' = Append(stdout, "no_api_key_at_startup")
            /\ Exit(1)
       ELSE /\ pc' = "mode_prompt"
            /\ UNCHANGED <<stdout, exitCode>>
    /\ UNCHANGED <<keys, fs, uncaught, choice, listing, idx, cur, lang, url,
                   events, log, outputs>>


\* file.suffix.lower(), without the dot.
\* Variant that compares the suffix as written.
SuffixAsWritten(p) == p.suffix

Suffix(p) == Lower(p.suffix)

\* Lines 133-135, 140, 165-167: the mode prompt and its three branches.
ModePrompt ==
    /\ pc = "mode_prompt"
    /\ \E raw \in ModeInputs :
         /\ choice' = Upper(Strip(raw))
         /\ events' = Append(events, Ev("mode_prompt", 0, NoPath, <<>>, Absent, ""))
         /\ IF choice' = <<"Y">>
            THEN pc' = "remote_prompt" /\ UNCHANGED <<stdout, exitCode>>
            ELSE IF choice' = <<"L">>
            THEN pc' = "local_prompt" /\ UNCHANGED <<stdout, exitCode>>
            ELSE /\ stdout' = Append(stdout, "invalid_choice")
                 /\ Exit(1)
    /\ UNCHANGED <<keys, fs, uncaught, listing, idx, cur, lang, url, log, outputs>>

\* Lines 75-77: the probe says the file is not WAV; message, return.
\* Variant that also writes the skip to the log.
NotWavSkipLogged(before, ev) ==
    /\ stdout' = Append(stdout, "skipping_not_wav")
    /\ log' = Append(log, "Skipping file")
    /\ events' = Append(before, [ev EXCEPT !.result = "not_wav"])
    /\ UNCHANGED outputs

NotWavSkip(before, ev) ==
    /\ stdout' = Append(stdout, "skipping_not_wav")
    /\ events' = Append(before, [ev EXCEPT !.result = "not_wav"])
    /\ UNCHANGED <<log, outputs>>

\* Lines 80-82: no credential for the language; message, return.
NoKeySkip(before, ev) ==
    /\ stdout' = Append(stdout, "api_key_not_found")
    /\ events' = Append(before, [ev EXCEPT !.result = "no_key"])
    /\ UNCHANGED <<log, outputs>>

\* Lines 84-130: build the configuration and drain farrigh(config); the
\* pipeline completes (and has written the transcripts next to the file)
\* or raises, and `except Exception` logs and reports the failure.
\* Variant whose handler reports the failure without logging it.
RunPipelineUnlogged(before, ev) ==
    \E outcome \in PipelineOutcomes :
        IF outcome = "ok"
        THEN /\ stdout' = stdout \o <<"transcribing", "completed">>
             /\ outputs' = outputs \cup {ev.path}
             /\ events' = Append(before, [ev EXCEPT !.result = "ok"])
             /\ UNCHANGED log
        ELSE /\ stdout' = stdout \o <<"transcribing", "error_transcription">>
             /\ events' = Append(before, [ev EXCEPT !.result = "raised"])
             /\ UNCHANGED <<log, outputs>>

RunPipeline(before, ev) ==
    \E outcome \in PipelineOutcomes :
        IF outcome = "ok"
        THEN /\ stdout' = stdout \o <<"transcribing", "completed">>
             /\ outputs' = outputs \cup {ev.path}
             /\ events' = Append(before, [ev EXCEPT !.result = "ok"])
             /\ UNCHANGED log
        ELSE /\ log' = Append(log, "Error during transcription")
             /\ stdout' = stdout \o <<"transcribing", "error_transcription">>
             /\ events' = Append(before, [ev EXCEPT !.result = "raised"])
             /\ UNCHANGED outputs

\* Lines 74-130.  The effect of transcribe_file(path, language_sign) on the
\* log, the console, the output files and the history; `entry` is the
\* directory entry the call is made for (0 outside directory mode) and
\* `before` the history up to the call.
transcribe_file(path, language_sign, entry, before) ==
    LET ev == Ev("dispatch", entry, path, language_sign, fs[path], "")
    IN  IF ~is_wav_file(fs[path])
        THEN NotWavSkip(before, ev)
        ELSE IF ~Truthy(Lookup(keys, language_sign))
        THEN NoKeySkip(before, ev)
        ELSE RunPipeline(before, ev)

\* input(language sign) followed by transcribe_file, as at lines 148-149,
\* 152-153, 156-157 and 163-164.
PromptAndTranscribe(path, entry) ==
    \E language_sign \in LangInputs :
        transcribe_file(path, language_sign, entry,
            Append(events, Ev("lang_prompt", entry, path, <<>>, Absent, "")))

\* The transcoder exits zero (TRUE) or non-zero (FALSE); it cannot succeed
\* on a source that does not exist.
TranscoderOutcomes(src) == IF fs[src].exists THEN BOOLEAN ELSE {FALSE}

\* Lines 43-65.  One run of the transcoder on src; it exits zero or non-zero.
\* On success the sibling .wav holds WAV audio and the caller goes on at
\* `next`; on failure the process exits with status 1.
\* Variant whose failure handler returns to the caller.
ConvertFailureReturns(src, entry, logline, message, next) ==
    LET dst == with_suffix_wav(src)
    IN  \E ok \in TranscoderOutcomes(src) :
          /\ events' = Append(events,
                 Ev("convert", entry, dst, <<>>, fs[dst], IF ok THEN "ok" ELSE "failed"))
          /\ IF ok
             THEN /\ fs' = [fs EXCEPT ![dst] = FileOf(WavBytes)]
                  /\ stdout' = Append(stdout, message)
                  /\ cur' = dst
                  /\ pc' = next
                  /\ UNCHANGED <<log, exitCode>>
             ELSE /\ log' = Append(log, logline)
                  /\ stdout' = Append(stdout, "error_converting")
                  /\ cur' = dst
                  /\ pc' = next
                  /\ UNCHANGED <<fs, exitCode>>

Convert(src, entry, logline, message, next) ==
    LET dst == with_suffix_wav(src)
    IN  \E ok \in TranscoderOutcomes(src) :
          /\ events' = Append(events,
                 Ev("convert", entry, dst, <<>>, fs[dst], IF ok THEN "ok" ELSE "failed"))
          /\ IF ok
             THEN /\ fs' = [fs EXCEPT ![dst] = FileOf(WavBytes)]
                  /\ stdout' = Append(stdout, message)
                  /\ cur' = dst
                  /\ pc' = next
                  /\ UNCHANGED <<log, exitCode>>
             ELSE /\ log' = Append(log, logline)
                  /\ stdout' = Append(stdout, "error_converting")
                  /\ Exit(1)
                  /\ UNCHANGED <<fs, cur>>

convert_mp3_to_wav(src, entry, next) ==
    Convert(src, entry, "Error converting MP3 to WAV", "mp3_converted", next)

convert_video_to_audio(src, entry, next) ==
    Convert(src, entry, "Error converting video to audio", "video_converted", next)


\* Lines 136-137: the two prompts of remote mode.
RemotePrompt ==
    /\ pc = "remote_prompt"
    /\ \E u \in Urls, language_sign \in LangInputs :
         /\ url' = u
         /\ lang' = language_sign
         /\ events' = events \o
               << Ev("url_prompt", 0, NoPath, <<>>, Absent, ""),
                  Ev("lang_prompt", 0, NoPath, <<>>, Absent, "") >>
    /\ pc' = "download"
    /\ UNCHANGED <<keys, fs, exitCode, uncaught, choice, listing, idx, cur,
                   log, stdout, outputs>>

\* What the downloader may do for a URL: exit non-zero; exit zero having
\* written <id>.wav; exit zero having written nothing (no item to fetch).
DownloaderOutcomes == {"failed", "written", "nothing"}

\* next(glob('downloads/*.wav')) over every WAV of the directory: the scan
\* order is the file system's, so any of them may come first.
FirstWavCandidates(files) ==
    { p \in Existing(files, DownloadPaths) : p.suffix = WavSuffix }

\* Lines 31-41 and 138: download_youtube_audio(youtube_url).
Download ==
    /\ pc = "download"
    /\ \E outcome \in DownloaderOutcomes :
         LET made == DownloadedPath(url)
             after == IF outcome = "written"
                      THEN [fs EXCEPT ![made] = FileOf(WavBytes)]
                      ELSE fs
             ev == Ev("download", 0, IF outcome = "written" THEN made ELSE NoPath,
                      <<>>, Absent, outcome)
         IN  /\ events' = Append(events, ev)
             /\ fs' = after
             /\ IF outcome = "failed"
                THEN /\ log' = Append(log, "Error downloading YouTube audio")
                     /\ stdout' = Append(stdout, "error_downloading")
                     /\ Exit(1)
                     /\ UNCHANGED <<cur, uncaught>>
                ELSE IF FirstWavCandidates(after) = {}
                THEN \* next() on an exhausted iterator: StopIteration, which
                     \* nothing catches; the interpreter exits with status 1.
                     /\ uncaught' = "StopIteration"
                     /\ Exit(1)
                     /\ UNCHANGED <<cur, log, stdout>>
                ELSE /\ cur' \in FirstWavCandidates(after)
                     /\ pc' = "remote_dispatch"
                     /\ UNCHANGED <<exitCode, uncaught, log, stdout>>
    /\ UNCHANGED <<keys, choice, listing, idx, lang, url, outputs>>

\* Line 139, then main returns.
RemoteDispatch ==
    /\ pc = "remote_dispatch"
    /\ transcribe_file(cur, lang, 0, events)
    /\ Exit(0)
    /\ UNCHANGED <<keys, fs, uncaught, choice, listing, idx, cur, lang, url>>

\* Lines 141-146 and 158: the path prompt; a directory is scanned once,
\* when the loop starts, in the file system's order.
LocalPrompt ==
    /\ pc = "local_prompt"
    /\ \/ \E order \in Perms(Existing(fs, LocalPaths)) :
            /\ events' = Append(events, Ev("path_prompt", 0, NoPath, <<>>, Absent, "dir"))
            /\ listing' = order
            /\ idx' = 1
            /\ pc' = "dir_entry"
            /\ UNCHANGED cur
       \/ \E file_path \in LocalPaths :
            /\ events' = Append(events,
                   Ev("path_prompt", 0, file_path, <<>>, fs[file_path], "file"))
            /\ cur' = file_path
            /\ pc' = "single_file"
            /\ UNCHANGED <<listing, idx>>
    /\ UNCHANGED <<keys, fs, exitCode, uncaught, choice, lang, url, log,
                   stdout, outputs>>

InLoop == pc = "dir_entry" /\ idx <= Len(listing)

\* Lines 147-149: a .wav entry.
DirWav ==
    /\ InLoop
    /\ Suffix(listing[idx]) = WavSuffix
    /\ PromptAndTranscribe(listing[idx], idx)
    /\ idx' = idx + 1
    /\ UNCHANGED <<keys, fs, pc, exitCode, uncaught, choice, listing, cur,
                   lang, url>>

\* Lines 150-151: an .mp3 entry is converted.
DirMp3 ==
    /\ InLoop
    /\ Suffix(listing[idx]) = Mp3Suffix
    /\ convert_mp3_to_wav(listing[idx], idx, "dir_converted")
    /\ UNCHANGED <<keys, uncaught, choice, listing, idx, lang, url, outputs>>

\* Lines 154-155: a video entry is converted.
DirVideo ==
    /\ InLoop
    /\ Suffix(listing[idx]) \notin {WavSuffix, Mp3Suffix}
    /\ Suffix(listing[idx]) \in VideoSuffixes
    /\ convert_video_to_audio(listing[idx], idx, "dir_converted")
    /\ UNCHANGED <<keys, uncaught, choice, listing, idx, lang, url, outputs>>

\* Lines 152-153 and 156-157: prompt and dispatch of the converted file.
DirConverted ==
    /\ pc = "dir_converted"
    /\ PromptAndTranscribe(cur, idx)
    /\ idx' = idx + 1
    /\ pc' = "dir_entry"
    /\ UNCHANGED <<keys, fs, exitCode, uncaught, choice, listing, cur, lang, url>>

\* No branch of lines 147-157 matches: the entry is passed over.
DirOther ==
    /\ InLoop
    /\ Suffix(listing[idx]) \notin {WavSuffix, Mp3Suffix} \cup VideoSuffixes
    /\ idx' = idx + 1
    /\ UNCHANGED <<keys, fs, pc, exitCode, uncaught, choice, listing, cur,
                   lang, url, events, log, stdout, outputs>>

\* The loop of line 146 is exhausted; main returns.
DirDone ==
    /\ pc = "dir_entry"
    /\ idx > Len(listing)
    /\ Exit(0)
    /\ UNCHANGED <<keys, fs, uncaught, choice, listing, idx, cur, lang, url,
                   events, log, stdout, outputs>>

\* Lines 159-160.
SingleMp3 ==
    /\ pc = "single_file"
    /\ Suffix(cur) = Mp3Suffix
    /\ convert_mp3_to_wav(cur, 0, "single_ready")
    /\ UNCHANGED <<keys, uncaught, choice, listing, idx, lang, url, outputs>>

\* Lines 161-162.
SingleVideo ==
    /\ pc = "single_file"
    /\ Suffix(cur) # Mp3Suffix
    /\ Suffix(cur) \in VideoSuffixes
    /\ convert_video_to_audio(cur, 0, "single_ready")
    /\ UNCHANGED <<keys, uncaught, choice, listing, idx, lang, url, outputs>>

\* Variant that dispatches a single file only when its suffix is one the
\* directory loop dispatches.
SingleTranscribeListedOnly ==
    /\ \/ pc = "single_ready"
       \/ pc = "single_file" /\ Suffix(cur) \notin {Mp3Suffix} \cup VideoSuffixes
    /\ IF pc = "single_file" /\ Suffix(cur) # WavSuffix
       THEN UNCHANGED <<events, log, stdout, outputs>>
       ELSE PromptAndTranscribe(cur, 0)
    /\ Exit(0)
    /\ UNCHANGED <<keys, fs, uncaught, choice, listing, idx, cur, lang, url>>

\* Lines 163-164, reached after a conversion or with file_path as entered
\* when neither branch of lines 159-162 matches; then main returns.
SingleTranscribe ==
    /\ \/ pc = "single_ready"
       \/ pc = "single_file" /\ Suffix(cur) \notin {Mp3Suffix} \cup VideoSuffixes
    /\ PromptAndTranscribe(cur, 0)
    /\ Exit(0)
    /\ UNCHANGED <<keys, fs, uncaught, choice, listing, idx, cur, lang, url>>

Next ==
    \/ Startup
    \/ ModePrompt
    \/ RemotePrompt
    \/ Download
    \/ RemoteDispatch
    \/ LocalPrompt
    \/ DirWav
    \/ DirMp3
    \/ DirVideo
    \/ DirConverted
    \/ DirOther
    \/ DirDone
    \/ SingleMp3
    \/ SingleVideo
    \/ SingleTranscribe

Spec == Init /\ [][Next]_vars


----------------------------------------------------------------------------
\* Vocabulary of the properties.

Kind(k) == { i \in DOMAIN events : events[i].kind = k }

Converts == Kind("convert")

Dispatches == Kind("dispatch")

LangPrompts == Kind("lang_prompt")

ForEntry(S, j) == { i \in S : events[i].entry = j }

Count(seq, x) == Cardinality({ i \in DOMAIN seq : seq[i] = x })

WithResult(S, r) == { i \in S : events[i].result = r }

\* The extensions the specification names, matched without regard to case.
ConvertedExts == { <<"m","p","3">>, <<"m","p","4">>, <<"m","k","v">>, <<"a","v","i">> }

DispatchedExts == ConvertedExts \cup { <<"w","a","v">> }

SameIgnoringCase(a, b) == Upper(a) = Upper(b)

HasExt(p, exts) == \E e \in exts : SameIgnoringCase(p.suffix, e)

Finished == pc = "exited"

DirRun == idx > 0

SingleRun == \E i \in Kind("path_prompt") : events[i].result = "file"

RemoteRun == choice = <<"Y">>

ConversionFailed == WithResult(Converts, "failed") # {}

PipelineInvoked(i) == events[i].result \in {"ok", "raised"}

\* Entry j of the listing has been converted (if its extension asks for
\* it), prompted for and dispatched, once each and in that order, by
\* events later than position `after`.
EntryHandled(j, after) ==
    LET p == listing[j]
        c == { k \in ForEntry(Converts, j) : k > after }
        q == { k \in ForEntry(LangPrompts, j) : k > after }
        d == { k \in ForEntry(Dispatches, j) : k > after }
    IN  IF HasExt(p, ConvertedExts)
        THEN /\ Cardinality(c) = 1 /\ Cardinality(q) = 1 /\ Cardinality(d) = 1
             /\ \A x \in c, y \in q, z \in d :
                  /\ x < y /\ y < z
                  /\ events[x].result = "ok"
                  /\ events[z].path = [p EXCEPT !.suffix = <<"w","a","v">>]
        ELSE IF HasExt(p, {<<"w","a","v">>})
        THEN /\ c = {} /\ Cardinality(q) = 1 /\ Cardinality(d) = 1
             /\ \A y \in q, z \in d : y < z /\ events[z].path = p
        ELSE c = {} /\ q = {} /\ d = {}

\* C1: in directory mode a pipeline exception during one dispatch is caught
\* and logged, the process does not end because of it, and every later
\* entry of the listing is converted, prompted for and dispatched as usual.
C1_PipelineFailureIsolated ==
    DirRun =>
      \A i \in WithResult(Dispatches, "raised") :
        /\ Count(log, "Error during transcription")
             = Cardinality(WithResult(Dispatches, "raised"))
        /\ uncaught = ""
        /\ Finished => (exitCode = 0 \/ ConversionFailed)
        /\ \A j \in (events[i].entry + 1)..Len(listing) :
             (j < idx \/ (Finished /\ ~ConversionFailed)) => EntryHandled(j, i)

C1_Witness ==
    /\ DirRun /\ Finished /\ exitCode = 0
    /\ \E i \in WithResult(Dispatches, "raised") :
         /\ \E c \in Converts : c > i
         /\ \E d \in Dispatches : d > i /\ events[d].entry > events[i].entry

\* C2: a failed conversion is the last thing the process does: it ends
\* with a non-zero status, and no prompt, conversion or dispatch follows.
C2_ConversionFailureFatal ==
    \A i \in WithResult(Converts, "failed") :
        /\ i = Len(events)
        /\ Finished
        /\ exitCode # 0
        /\ ForEntry(Dispatches, events[i].entry) \subseteq 1..i
        /\ stdout[Len(stdout)] = "error_converting"

C2_Witness ==
    /\ DirRun /\ ConversionFailed
    /\ idx < Len(listing)
    /\ HasExt(listing[idx + 1], DispatchedExts)
    /\ Dispatches # {}

\* C3: in directory mode without a conversion failure, the converter runs
\* exactly once for each .mp3/.mp4/.mkv/.avi entry and for no other, the
\* dispatcher runs exactly once for each .wav/.mp3/.mp4/.mkv/.avi entry and
\* for no other, and dispatches follow the enumeration order.
C3_DirectoryRouting ==
    DirRun =>
      /\ \A i \in Converts \cup Dispatches : events[i].entry \in 1..Len(listing)
      /\ \A j \in 1..Len(listing) :
           LET nc == Cardinality(ForEntry(Converts, j))
               nd == Cardinality(ForEntry(Dispatches, j))
               conv == HasExt(listing[j], ConvertedExts)
               disp == HasExt(listing[j], DispatchedExts)
           IN  /\ nc <= 1 /\ nd <= 1
               /\ ~conv => nc = 0
               /\ ~disp => nd = 0
               /\ (Finished /\ ~ConversionFailed) =>
                    /\ conv => nc = 1
                    /\ disp => nd = 1
      /\ \A a, b \in Dispatches : a < b => events[a].entry < events[b].entry

C3_Witness ==
    /\ DirRun /\ Finished /\ ~ConversionFailed
    /\ Len(listing) = 3
    /\ \A e \in { <<"w","a","v">>, <<"m","p","3">>, <<"m","k","v">> } :
         \E j \in 1..3 : HasExt(listing[j], {e})
    /\ Cardinality(Converts) = 2
    /\ Cardinality(Dispatches) = 3

\* The file starts with the four bytes "RIFF" and can be read.
StartsWithRIFF(f) ==
    /\ f.exists /\ f.readable
    /\ Len(f.bytes) >= 4
    /\ f.bytes[1] = "R" /\ f.bytes[2] = "I" /\ f.bytes[3] = "F" /\ f.bytes[4] = "F"

\* The language sign names, in any letter case, a code with a credential.
HasCredential(language_sign) ==
    \E c \in { <<"E","N">>, <<"A","R">>, <<"F","R">>, <<"J","A">> } :
        /\ SameIgnoringCase(language_sign, c)
        /\ keys[c] \notin {NoneValue, ""}

\* C4: a dispatch invokes the pipeline exactly when the file starts with
\* "RIFF" and the language sign, in any letter case, is one of EN/AR/FR/JA
\* with a credential; otherwise it returns without raising and no output
\* file is written.
C4_DispatchGuard ==
    /\ \A i \in Dispatches :
         PipelineInvoked(i) <=>
            (StartsWithRIFF(events[i].file) /\ HasCredential(events[i].lang))
    /\ outputs = { events[i].path : i \in WithResult(Dispatches, "ok") }
    /\ Dispatches # {} => uncaught = ""

C4_Witness ==
    /\ \E i \in Dispatches :
         PipelineInvoked(i) /\ events[i].lang # Upper(events[i].lang)
    /\ \E i \in Dispatches : ~StartsWithRIFF(events[i].file)
    /\ \E i \in Dispatches :
         StartsWithRIFF(events[i].file) /\ ~HasCredential(events[i].lang)

\* C5: with no credential configured the process exits non-zero at startup,
\* before any prompt or external tool; with at least one it reaches the
\* mode prompt.
C5_StartupCredentialCheck ==
    LET configured == { c \in Codes : keys[c] \notin {NoneValue, ""} }
    IN  pc # "start" =>
          IF configured = {}
          THEN Finished /\ exitCode = 1 /\ events = <<>>
          ELSE pc = "mode_prompt" \/ (events # <<>> /\ events[1].kind = "mode_prompt")

C5_Witness ==
    /\ \A c \in Codes : ~Truthy(keys[c])
    /\ \E c \in Codes : keys[c] = ""
    /\ Finished /\ exitCode = 1


\* C6 as stated: every skip of the dispatcher (not WAV, no credential,
\* pipeline failure) leaves an error entry in the log.
C6_EverySkipLogged ==
    Len(log) >= Cardinality(WithResult(Dispatches, "not_wav")
                              \cup WithResult(Dispatches, "no_key")
                              \cup WithResult(Dispatches, "raised"))

\* C6, amended: only a pipeline failure is logged by the dispatcher.  A
\* file skipped as not WAV or for a missing credential gets its message on
\* the console and no log entry; in all three cases the dispatcher returns
\* and the run goes on.
C6_OnlyPipelineFailureLogged ==
    /\ Count(log, "Error during transcription")
         = Cardinality(WithResult(Dispatches, "raised"))
    /\ Len(log) = Cardinality(WithResult(Dispatches, "raised"))
                    + Cardinality(WithResult(Converts, "failed"))
                    + Cardinality(WithResult(Kind("download"), "failed"))
    /\ Count(stdout, "skipping_not_wav")
         = Cardinality(WithResult(Dispatches, "not_wav"))
    /\ Count(stdout, "api_key_not_found")
         = Cardinality(WithResult(Dispatches, "no_key"))
    /\ Count(stdout, "error_transcription")
         = Cardinality(WithResult(Dispatches, "raised"))
    /\ (events # <<>> /\ events[Len(events)].kind = "dispatch") =>
         /\ uncaught = ""
         /\ Finished => exitCode = 0
         /\ (DirRun /\ ~Finished) =>
              pc = "dir_entry" /\ idx > events[Len(events)].entry

C6_Witness ==
    /\ DirRun
    /\ WithResult(Dispatches, "not_wav") # {}
    /\ WithResult(Dispatches, "no_key") # {}
    /\ WithResult(Dispatches, "raised") # {}
    /\ Len(log) = 1

\* C7: the exit status is 0 exactly for the runs that start with a
\* credential, select mode Y or L, and see no downloader or transcoder
\* failure; it is 1 otherwise.
C7_ExitStatus ==
    Finished =>
      LET clean == /\ \E c \in Codes : keys[c] \notin {NoneValue, ""}
                   /\ choice \in { <<"Y">>, <<"L">> }
                   /\ WithResult(Converts, "failed") = {}
                   /\ WithResult(Kind("download"), "failed") = {}
      IN  IF clean THEN exitCode = 0 ELSE exitCode = 1

\* C8 as stated: a single file is converted and dispatched exactly when a
\* directory entry with its extension would be.
C8_SingleFileLikeDirectoryEntry ==
    (SingleRun /\ Finished /\ ~ConversionFailed) =>
      \A i \in Kind("path_prompt") :
        /\ Converts # {} <=> HasExt(events[i].path, ConvertedExts)
        /\ Dispatches # {} <=> HasExt(events[i].path, DispatchedExts)

\* C8, amended: a single file is converted exactly when a directory entry
\* with its extension would be (.mp3/.mp4/.mkv/.avi, once); unlike a
\* directory entry it is then dispatched whatever its extension, after
\* exactly one language prompt.
C8_SingleFileAlwaysDispatched ==
    SingleRun =>
      \A i \in Kind("path_prompt") :
        /\ \/ Cardinality(Converts)
                = (IF HasExt(events[i].path, ConvertedExts) THEN 1 ELSE 0)
           \/ (pc = "single_file" /\ Converts = {})
        /\ Cardinality(Dispatches) <= 1
        /\ Cardinality(LangPrompts) = Cardinality(Dispatches)
        /\ \A q \in LangPrompts, d \in Dispatches : q < d /\ \A c \in Converts : c < q
        /\ \A d \in Dispatches :
             events[d].path = IF HasExt(events[i].path, ConvertedExts)
                              THEN [events[i].path EXCEPT !.suffix = <<"w","a","v">>]
                              ELSE events[i].path
        /\ (Finished /\ ~ConversionFailed) => Cardinality(Dispatches) = 1

C8_Witness ==
    /\ SingleRun /\ Finished
    /\ \E i \in Kind("path_prompt") : ~HasExt(events[i].path, DispatchedExts)
    /\ WithResult(Dispatches, "ok") # {}

\* C9: in remote mode the file dispatched is the one the downloader wrote
\* for the URL of this run, and a download that leaves no WAV in the
\* downloads directory leads to no dispatch.
C9_DispatchesDownloadedFile ==
    RemoteRun =>
      \A d \in Dispatches :
        /\ WithResult(Kind("download"), "written") # {}
        /\ events[d].path = [stem |-> url, suffix |-> <<"w","a","v">>]

\* C10: within one directory run no WAV path is dispatched twice, and no
\* conversion writes a WAV path that is a directory entry or the target of
\* another conversion.
C10_NoWavPathReused ==
    DirRun =>
      /\ \A a, b \in Dispatches : events[a].path = events[b].path => a = b
      /\ \A a \in WithResult(Converts, "ok") :
           /\ \A j \in 1..Len(listing) : listing[j] # events[a].path
           /\ \A b \in WithResult(Converts, "ok") :
                events[a].path = events[b].path => a = b

====
